---------------------------- MODULE Spec2Model ----------------------------
(***************************************************************************)
(* Model of worker_functions.py, the per-node worker of the Nexus          *)
(* Dashboard pre-upgrade validation: main() obtains a tech support         *)
(* archive, extracts it, runs thirteen check units one after another and   *)
(* persists the aggregate `results' and the heartbeat `status'.            *)
(*                                                                         *)
(* Every function of the worker is modelled by the sequences of writes     *)
(* (to results, to the heartbeat, to the two files) it performs on each of *)
(* its control paths; main() walks those sequences one statement at a      *)
(* time, so a SIGINT or an exception can fall between any two statements.  *)
(* Message texts are abstracted to their kind:                             *)
(*   "ok"            a PASS summary line                                   *)
(*   "finding"       a line reporting a defect or a failed step            *)
(*   "inconclusive"  a could-not-determine line                            *)
(*   "info"          an additional listing / explanation line              *)
(*   "fault"         "Check failed: <exception text>"                      *)
(*   "didnotrun"     "Check did not run ..."                               *)
(***************************************************************************)
EXTENDS Integers, Sequences, FiniteSets, TLC

(***************************************************************************)
(* Bounds of the exploration.                                              *)
(***************************************************************************)
\* checks of one run whose environment makes them leave the nominal path
\* or raise an exception
MaxDeviantChecks == 1
\* SIGINT deliveries in one run
MaxInterrupts == 1
\* iterations of the polling loop of generate_techsupport
MaxPolls == 2

(***************************************************************************)
(* The registry: the keys of results["checks"].                            *)
(***************************************************************************)
CheckNames ==
    { "version_check", "subnet_check", "node_status", "ping_check",
      "disk_space", "pod_status", "system_health", "techsupport",
      "certificate_check", "iso_check", "lvm_pvs_check",
      "persistent_ip_check", "atom0_nvme_check", "atom0_vg_check",
      "nxos_discovery_service" }

\* the dict literal, in source order (the order of the marking loops)
RegistryOrder ==
    << "version_check", "subnet_check", "node_status", "ping_check",
       "disk_space", "pod_status", "system_health", "techsupport",
       "certificate_check", "iso_check", "lvm_pvs_check",
       "persistent_ip_check", "atom0_nvme_check", "atom0_vg_check",
       "nxos_discovery_service" >>

Statuses == { "PASS", "WARNING", "FAIL", "ERROR" }

\* one entry of results["checks"]; the three optional keys are modelled by
\* their presence
Entry(s, d) ==
    [ status |-> s, details |-> d,
      explanation |-> FALSE, recommendation |-> FALSE, reference |-> FALSE ]

DefaultEntry == Entry("PASS", << >>)

\* the module-level initialisation of results
results_init == [ c \in CheckNames |-> DefaultEntry ]

\* the module-level initialisation of status
status_init == [ status |-> "starting", progress |-> 0 ]

\* STATUS_FILE and RESULTS_FILE before the run wrote them
NoStatusFile  == [ written |-> FALSE, status |-> "", progress |-> 0 ]
NoResultsFile == [ written |-> FALSE, checks |-> results_init, keys |-> {} ]

(***************************************************************************)
(* The thirteen check units in the order main() calls them, each named by  *)
(* the entry it is registered under.                                       *)
(***************************************************************************)
CheckOrder ==
    << "subnet_check", "ping_check", "node_status", "disk_space",
       "pod_status", "system_health", "nxos_discovery_service",
       "certificate_check", "iso_check", "lvm_pvs_check",
       "persistent_ip_check", "atom0_nvme_check", "atom0_vg_check" >>

NumChecks == Len(CheckOrder)

\* the check units defined under @robust_check(<name>)
Decorated ==
    { "pod_status", "certificate_check", "iso_check", "lvm_pvs_check",
      "persistent_ip_check", "atom0_nvme_check", "atom0_vg_check" }

(***************************************************************************)
(* Writes.  One record shape for every statement that changes state.       *)
(***************************************************************************)
W(k, e, s, d, n) == [ k |-> k, e |-> e, s |-> s, d |-> d, n |-> n ]

St(e, s)     == W("status", e, s, << >>, 0)   \* results[..][e]["status"] = s
Set(e, d)    == W("set", e, "", d, 0)         \* ...["details"] = d
App(e, t)    == W("append", e, t, << >>, 0)   \* ...["details"].append(t)
Fld(e, f)    == W("field", e, f, << >>, 0)    \* ...[f] = <text>
Ent(e, s, d) == W("entry", e, s, d, 0)        \* results[..][e] = {status, details}
Key(s)       == W("key", "", s, << >>, 0)     \* results[s] = <value>
Hb(s, n)     == W("hb", "", s, << >>, n)      \* update_status(s, <label>, n)
Save         == W("save", "", "", << >>, 0)   \* save_results()
Ret(s)       == W("ret", "", s, << >>, 0)     \* the function's return value

VARIABLES
    pc,              \* position of main()
    path,            \* statements the running function still has to execute
    cur,             \* index in CheckOrder of the check being run (0: none)
    results,         \* results["checks"]
    extraKeys,       \* keys added to results besides node_name/timestamp/checks
    status,          \* the module-level status dict
    statusFile,      \* content of STATUS_FILE
    resultsFile,     \* content of RESULTS_FILE
    baseDirExists,   \* BASE_DIR exists on disk
    baseDirCreatable,\* os.makedirs(BASE_DIR) can succeed
    writable,        \* open(<file in BASE_DIR>, 'w') and the write succeed
    py2,             \* sys.version_info[0] < 3
    operation,       \* sys.argv[1]: "generate" or "select"
    tech_file,       \* "unset", "file" or "none": what generate/select returned
    copied,          \* the cp into node_dir produced dest_path
    extracted,       \* the archive was extracted into node_dir
    retcode,         \* value main() is returning, 130 for SystemExit(130), -1: none
    exitCode,        \* process exit code (-1 while running)
    handling,        \* signal_handler is running
    hpath,           \* statements signal_handler still has to execute
    interrupts,      \* SIGINTs delivered so far
    swallowed,       \* SystemExit(130) of the handler was caught by a bare except
    hung,            \* main() waits for a command that does not return
    invoked,         \* check units called so far, in call order
    faulted,         \* check units whose exception was handled at their boundary
    deviant,         \* check units that left the nominal path or raised
    startEntry,      \* results as it was when the current check was called
    scriptError,     \* main() reached its outer except Exception
    progressDropped, \* some update_status wrote a progress below the previous one
    cache_builds,    \* FileCache objects constructed by get_file_cache()
    cache_tree,      \* value of tree_writes when the last one was built (-1)
    tree_writes,     \* times a check wrote under node_dir
    served_by,       \* the FileCache objects (by number) lookups were made on
    node_dir_exists, \* os.path.exists(base_dir) when the cache is built
    tree,            \* files under node_dir, in the order os.walk yields them
    file_cache,      \* FileCache.file_cache: file name -> list of full paths
    path_cache,      \* FileCache.path_cache: relative path -> full path
    seen,            \* per pattern, what the first find_files call returned
    refreshed,       \* refresh() was called since the cache was built
    specific_file,   \* sys.argv[2]: "unset" (None) or the path given
    specific_exists, \* os.path.exists(specific_file)
    tech_files,      \* glob.glob("/techsupport/*<node>.tgz"), with mtimes
    selected,        \* what select_techsupport returns ("pending": not called)
    cmd_ok,          \* per extraction command: it exits 0 on the archive
    dirs_found,      \* os.walk(node_dir) shows a directory after extraction
    attempts,        \* extraction commands run on the archive, in order
    hb_doc,          \* what STATUS_FILE holds on disk
    hb_pc,           \* where the update_status calls are
    hb_n,            \* update_status calls of main() begun so far
    hb_read,         \* what the poller got at its last read
    procs,           \* the processes of the host when the cleanup begins
    child_pids,      \* cleanup_processes: the pids it took from ps
    cl_pc            \* cleanup_processes: its position

vars ==
    << pc, path, cur, results, extraKeys, status, statusFile, resultsFile,
       baseDirExists, baseDirCreatable, writable, py2, operation, tech_file,
       copied,
       extracted, retcode, exitCode, handling, hpath, interrupts, swallowed,
       hung,
       invoked, faulted, deviant, startEntry, scriptError, progressDropped,
       cache_builds, cache_tree, tree_writes, served_by,
       node_dir_exists, tree, file_cache, path_cache, seen, refreshed,
       specific_file, specific_exists, tech_files, selected,
       cmd_ok, dirs_found, attempts, hb_doc, hb_pc, hb_n, hb_read,
       procs, child_pids, cl_pc >>


(***************************************************************************)
(* Evidence acquisition.  Every path ends with Ret, the function's result. *)
(***************************************************************************)
ts == "techsupport"

\* progress written by one iteration of the waiting loop:
\* 15 + int(55 * elapsed / 1200) for an elapsed time below max_wait_time
PollProgress == { 15, 28, 42 }

\* the update_status calls of 1..MaxPolls iterations; elapsed time only grows
RECURSIVE PollRuns(_)
PollRuns(n) ==
    IF n = 0 THEN { << >> }
    ELSE LET shorter == PollRuns(n - 1)
         IN  shorter \cup
             { Append(r, Hb("running", p)) : r \in shorter, p \in PollProgress }

PollLoops ==
    { r \in PollRuns(MaxPolls) :
        /\ Len(r) >= 1
        /\ \A i \in 1..(Len(r) - 1) : r[i].n <= r[i + 1].n }

\* the three statements of every failure branch of generate_techsupport
GenerateFail ==
    << St(ts, "FAIL"), App(ts, "finding"), Hb("error", 70), Ret("none") >>

generate_techsupport ==
    LET begin == << Hb("running", 10) >>
        wait(l) == begin \o << Hb("running", 15) >> \o l \o << Hb("running", 70) >>
    IN  \* non-zero return code, or an exception before the command returned
        { begin \o GenerateFail }
        \cup
        \* neither "Started: TS collection" nor "TS collection" in the output
        { begin \o << St(ts, "WARNING"), App(ts, "inconclusive"),
                      Hb("warning", 70), Ret("none") >> }
        \cup
        \* a new file appeared and stopped growing
        { wait(l) \o << Ret("file") >> : l \in PollLoops }
        \cup
        \* no new file: newest existing archive of the node
        { wait(l) \o << Hb("warning", 70), Ret("file") >> : l \in PollLoops }
        \cup
        \* no new file and no archive at all
        { wait(l) \o << Hb("warning", 70) >> \o GenerateFail : l \in PollLoops }
        \cup
        \* an exception inside the waiting loop (a file vanished under getsize)
        { begin \o << Hb("running", 15) >> \o l \o GenerateFail : l \in PollLoops }

select_techsupport ==
    { \* the given path exists, or the listing is non-empty (newest first)
      << Hb("running", 10), Hb("running", 20), Ret("file") >>,
      \* no (existing) given path and an empty listing
      << Hb("running", 10), St(ts, "FAIL"), App(ts, "finding"),
         Hb("error", 10), Ret("none") >> }

\* main(), `if not tech_file:'
NoArchivePath ==
    << Hb("error", 0), St(ts, "FAIL"), Set(ts, << "finding" >>), Save >>

\* extract_techsupport(node_dir, file_name); isCopied: dest_path exists
extract_techsupport(isCopied) ==
    LET begin == << Hb("running", 50) >>
        failed(n) == << St(ts, "FAIL"), App(ts, "finding"), Hb("error", n),
                        Ret("notextracted") >>
    IN  IF ~isCopied
        THEN { begin \o failed(50) }               \* file_path does not exist
        ELSE { begin \o << Set(ts, << "ok" >>), Hb("running", 90),
                           Ret("extracted") >>,   \* tar -xzf or tar -xf worked
               begin \o failed(60),                \* both tar commands failed,
                                                   \* or no directory came out
               begin \o failed(70) }               \* the except Exception branch

\* main(), after the last check
CompletePath == << Hb("complete", 100), Save >>

\* the marking loop and the persistence of main()'s outer except Exception
RECURSIVE MarkNotRun(_, _)
MarkNotRun(res, i) ==
    IF i > Len(RegistryOrder) THEN << >>
    ELSE LET c == RegistryOrder[i]
         IN  (IF res[c].details = << >>
              THEN << St(c, "FAIL"), Set(c, << "didnotrun" >>) >>
              ELSE << >>) \o MarkNotRun(res, i + 1)

ScriptErrorPath(res) == MarkNotRun(res, 1) \o << Hb("error", 0), Save >>

\* signal_handler, up to its sys.exit(130)
signal_handler == << Hb("interrupted", 0), Save >>


(***************************************************************************)
(* The check units.  Each is the sequence of its control paths, the first  *)
(* being the path of a healthy node with (when it was extracted) complete  *)
(* evidence.  Raise is an exception that leaves the function.              *)
(***************************************************************************)
Raise == W("raise", "", "", << >>, 0)

\* progress argument of the update_status call that opens each check
CheckProgress(c) ==
    CASE c = "subnet_check"           -> 93
      [] c = "ping_check"             -> 92
      [] c = "node_status"            -> 92
      [] c = "disk_space"             -> 94
      [] c = "pod_status"             -> 96
      [] c = "system_health"          -> 98
      [] c = "nxos_discovery_service" -> 98
      [] c = "certificate_check"      -> 95
      [] c = "iso_check"              -> 95
      [] c = "lvm_pvs_check"          -> 95
      [] c = "persistent_ip_check"    -> 97
      [] c = "atom0_nvme_check"       -> 97
      [] c = "atom0_vg_check"         -> 98

\* the two lines appended after a FAIL: explanation and recommendation texts
Advice(e) == << App(e, "info"), App(e, "info") >>

\* explanation, recommendation (and reference) set as keys of the entry
ExplRec(e)    == << Fld(e, "explanation"), Fld(e, "recommendation") >>
ExplRecRef(e) == ExplRec(e) \o << Fld(e, "reference") >>
RecRef(e)     == << Fld(e, "recommendation"), Fld(e, "reference") >>

\* `details = <list>.copy()': list.copy does not exist on Python 2
CopyDetails(e, isPy2) == IF isPy2 THEN << Raise >> ELSE << Set(e, << "finding" >>) >>

check_subnet_isolation ==
    LET e == "subnet_check"
        warn == << St(e, "WARNING"), App(e, "inconclusive") >>
        fail == << St(e, "FAIL"), App(e, "finding") >>
    IN  << << Set(e, << "ok" >>) >>,          \* every node isolated
           warn,                              \* no output / nothing parsed /
                                              \* one node missing data or unparsable
           fail \o Advice(e),                 \* one node overlapping
           fail \o warn,                      \* overlapping node, then a missing one
           warn \o fail \o Advice(e),         \* missing node, then an overlapping one
           << Raise >> >>                     \* parts[6] of a row of six fields

check_ping_reachability(isPy2) ==
    LET e == "ping_check"
    IN  << << Set(e, << "ok" >>) >>,
           << St(e, "WARNING"), App(e, "inconclusive") >>,
           << St(e, "FAIL") >> \o CopyDetails(e, isPy2) \o Advice(e) >>

check_node_status ==
    LET e == "node_status"
        v == "version_check"
        version   == << Set(v, << "ok" >>), Key("version") >>
        noversion == << St(v, "WARNING"), App(v, "inconclusive") >>
        warn      == << St(e, "WARNING"), App(e, "inconclusive") >>
        fail      == << St(e, "FAIL"), App(e, "finding") >>
        same      == << Set(v, << "ok" >>) >>
        allactive == << Set(e, << "ok" >>) >>
    IN  << version \o same \o allactive,
           \* `acs version' gave nothing: version_check stays WARNING
           noversion \o allactive,
           \* no management address
           version \o warn \o same \o allactive,
           \* `acs show nodes' gave nothing
           version \o warn,
           \* this node is not Active: reported in the loop and in the summary
           version \o fail \o same \o fail,
           \* two versions in the cluster
           version \o << St(v, "FAIL"), Set(v, << "finding" >>) >> \o ExplRec(v)
                   \o allactive,
           \* another node not Active and this node not listed
           version \o same \o fail \o warn,
           \* no node row could be parsed
           version \o << St(v, "WARNING"), Set(v, << "inconclusive" >>) >>
                   \o allactive \o warn >>

check_disk_space(isPy2) ==
    LET e == "disk_space"
    IN  << << Set(e, << "ok" >>) >>,
           << St(e, "FAIL") >> \o CopyDetails(e, isPy2) \o ExplRec(e),
           \* live df output without a usable row
           << St(e, "WARNING"), App(e, "inconclusive") >>,
           \* os.makedirs(destination) or open(file_path_used) failed
           << Raise >> >>

check_pods(isPy2, isCopied) ==
    LET e == "pod_status"
    IN  IF ~isCopied
        THEN \* pod_info_extracted is read before it was ever assigned
             << << Raise >> >>
        ELSE << << Set(e, << "ok" >>) >>,
                << St(e, "FAIL") >> \o CopyDetails(e, isPy2) \o ExplRec(e),
                \* the live kubectl query failed
                << St(e, "WARNING"), App(e, "inconclusive") >> >>

check_system_health ==
    LET e == "system_health"
    IN  << << Set(e, << "ok" >>) >>,
           << St(e, "FAIL"), Set(e, << "finding" >>) >> \o ExplRec(e),
           << St(e, "FAIL"), Set(e, << "finding" >>), App(e, "info") >>
               \o ExplRec(e),
           << St(e, "WARNING"), Set(e, << "inconclusive" >>) >> \o ExplRec(e) >>

check_nxos_discovery_service(isExtracted) ==
    LET e == "nxos_discovery_service"
        pass == << St(e, "PASS"), Set(e, << "ok" >>) >>
        warn == << St(e, "WARNING"), Set(e, << "inconclusive" >>) >> \o RecRef(e)
        fail == << St(e, "FAIL"), Set(e, << "finding" >>) >> \o ExplRecRef(e)
    IN  IF isExtracted THEN << pass, warn, fail >> ELSE << warn >>

check_CA_CSCwm35992(isExtracted) ==
    LET e == "certificate_check"
        pass == << St(e, "PASS"), Set(e, << "ok" >>) >>
        warn == << St(e, "WARNING"), Set(e, << "inconclusive" >>) >>
        fail == << St(e, "FAIL"), Set(e, << "finding" >>) >> \o ExplRecRef(e)
    IN  \* with no sm logs, no sm directory and none of the usual directories
        \* files_found is read before it was ever assigned
        IF isExtracted THEN << pass, warn, fail, << Raise >> >>
        ELSE << << Raise >> >>

check_ISOs_CSCwn94394(isExtracted) ==
    LET e == "iso_check"
        pass == << St(e, "PASS"), Set(e, << "ok" >>) >>
        err  == << St(e, "ERROR"), Set(e, << "inconclusive" >>) >>
        fail == << St(e, "FAIL"), Set(e, << "finding" >>) >> \o ExplRecRef(e)
    IN  IF isExtracted THEN << pass, fail, err >> ELSE << err >>

check_lvm_pvs(isExtracted) ==
    LET e == "lvm_pvs_check"
        nofile == << Ent(e, "PASS", << "ok" >>) >>
        listed == << Ent(e, "PASS", << >>), App(e, "info"), App(e, "info") >>
    IN  IF isExtracted
        THEN << nofile,
                listed \o << St(e, "PASS"), App(e, "info"),
                             Set(e, << "ok" >>) >>,
                listed \o << St(e, "WARNING") >> \o ExplRecRef(e) >>
        ELSE << nofile >>

check_persistent_ip_config(isExtracted) ==
    LET e == "persistent_ip_check"
        pass    == << St(e, "PASS"), Set(e, << "ok" >>) >>
        nofile  == << St(e, "WARNING"), Set(e, << "inconclusive", "info" >>) >>
                   \o ExplRecRef(e)
        noitems == << St(e, "WARNING"), Set(e, << "inconclusive" >>) >>
                   \o ExplRecRef(e)
        zero    == << St(e, "FAIL"), Set(e, << "finding" >>) >> \o ExplRecRef(e)
        few     == << St(e, "FAIL"), Set(e, << "finding" >>), App(e, "info") >>
                   \o ExplRecRef(e)
        unread  == << St(e, "FAIL"), Set(e, << "finding", "info" >>) >>
                   \o ExplRec(e)
    IN  IF isExtracted THEN << pass, nofile, noitems, zero, few, unread >>
        ELSE << nofile >>

check_atom0_nvme(isExtracted) ==
    LET e == "atom0_nvme_check"
        pass == << St(e, "PASS"), Set(e, << "ok" >>) >>
        warn == << St(e, "WARNING"), Set(e, << "inconclusive" >>) >> \o ExplRec(e)
        fail == << St(e, "FAIL"), Set(e, << "finding" >>) >> \o ExplRec(e)
    IN  IF isExtracted THEN << pass, warn, fail >> ELSE << warn >>

check_atom0_vg(isExtracted) ==
    LET e == "atom0_vg_check"
        pass == << St(e, "PASS"), Set(e, << "ok" >>) >>
        warn == << St(e, "WARNING"), Set(e, << "inconclusive" >>) >>
        fail == << St(e, "FAIL"), Set(e, << "finding" >>) >> \o ExplRecRef(e)
    IN  IF isExtracted THEN << pass, warn, fail >> ELSE << warn >>

\* the check units that look for their evidence in the extracted tree only
\* (through the file cache or find/os.path under node_dir)
EvidenceChecks ==
    { "nxos_discovery_service", "certificate_check", "iso_check",
      "lvm_pvs_check", "persistent_ip_check", "atom0_nvme_check",
      "atom0_vg_check" }

\* the body main() calls for the check registered under c
CheckPaths(c) ==
    CASE c = "subnet_check"           -> check_subnet_isolation
      [] c = "ping_check"             -> check_ping_reachability(py2)
      [] c = "node_status"            -> check_node_status
      [] c = "disk_space"             -> check_disk_space(py2)
      [] c = "pod_status"             -> check_pods(py2, copied)
      [] c = "system_health"          -> check_system_health
      [] c = "nxos_discovery_service" -> check_nxos_discovery_service(extracted)
      [] c = "certificate_check"      -> check_CA_CSCwm35992(extracted)
      [] c = "iso_check"              -> check_ISOs_CSCwn94394(extracted)
      [] c = "lvm_pvs_check"          -> check_lvm_pvs(extracted)
      [] c = "persistent_ip_check"    -> check_persistent_ip_config(extracted)
      [] c = "atom0_nvme_check"       -> check_atom0_nvme(extracted)
      [] c = "atom0_vg_check"         -> check_atom0_vg(extracted)

(***************************************************************************)
(* Fault boundaries.                                                       *)
(***************************************************************************)
\* the except Exception of robust_check(check_name).wrapper
robust_check(c) == << St(c, "FAIL"), Set(c, << "fault" >>) >>

\* the except Exception main() puts around the call of each check
MainHandler(c) ==
    CASE c = "lvm_pvs_check"    -> << St(c, "FAIL"), Set(c, << "ok" >>) >>
      [] c = "atom0_nvme_check" -> << St(c, "WARNING"), Set(c, << "inconclusive" >>) >>
      [] c = "atom0_vg_check"   -> << St(c, "WARNING"), Set(c, << "inconclusive" >>) >>
      [] OTHER                  -> << St(c, "FAIL"), Set(c, << "fault" >>) >>

\* the boundaries as they would be with the decorators taken off: main()'s
\* handlers catch everything
BoundaryWithoutDecorator(c) == MainHandler(c)

\* what catches an exception leaving check c: the decorator's wrapper is the
\* inner frame, so main()'s handler only sees undecorated checks.  The
\* statements of an except clause (a print and two assignments) are taken
\* not to raise themselves, which leaves main()'s `except' at 3603 unused.
Boundary(c) == IF c \in Decorated THEN robust_check(c) ELSE MainHandler(c)


(***************************************************************************)
(* Effect of one statement on the aggregate, the heartbeat and the files.  *)
(***************************************************************************)
WriteResults(res, w) ==
    CASE w.k = "status" -> [ res EXCEPT ![w.e].status = w.s ]
      [] w.k = "set"    -> [ res EXCEPT ![w.e].details = w.d ]
      [] w.k = "append" -> [ res EXCEPT ![w.e].details = Append(@, w.s) ]
      [] w.k = "field"  -> [ res EXCEPT ![w.e][w.s] = TRUE ]
      [] w.k = "entry"  -> [ res EXCEPT ![w.e] = Entry(w.s, w.d) ]
      [] OTHER          -> res

\* update_status: the dict always changes; the file only if open() succeeds,
\* and the exception of a failed open() is printed and dropped
update_status(w) ==
    /\ status' = [ status |-> w.s, progress |-> w.n ]
    /\ progressDropped' = (progressDropped \/ w.n < status.progress)
    /\ statusFile' =
          IF baseDirExists /\ writable
          THEN [ written |-> TRUE, status |-> w.s, progress |-> w.n ]
          ELSE statusFile
    /\ UNCHANGED << results, extraKeys, resultsFile, baseDirExists,
                    tech_file, extracted >>

\* save_results: creates the parent directory when it is missing; any
\* exception is printed and dropped
save_results ==
    /\ baseDirExists' = (baseDirExists \/ baseDirCreatable)
    /\ resultsFile' =
          IF baseDirExists' /\ writable
          THEN [ written |-> TRUE, checks |-> results, keys |-> extraKeys ]
          ELSE resultsFile
    /\ UNCHANGED << results, extraKeys, status, statusFile, tech_file,
                    extracted, progressDropped >>

Apply(w) ==
    CASE w.k = "hb"   -> update_status(w)
      [] w.k = "save" -> save_results
      [] w.k = "key"  ->
            /\ extraKeys' = extraKeys \cup { w.s }
            /\ UNCHANGED << results, status, statusFile, resultsFile,
                            baseDirExists, tech_file, extracted,
                            progressDropped >>
      [] w.k = "ret"  ->
            /\ tech_file' = IF w.s \in { "file", "none" } THEN w.s ELSE tech_file
            /\ extracted' = IF w.s = "extracted" THEN TRUE ELSE extracted
            /\ UNCHANGED << results, extraKeys, status, statusFile,
                            resultsFile, baseDirExists, progressDropped >>
      [] OTHER        ->
            /\ results' = WriteResults(results, w)
            /\ UNCHANGED << extraKeys, status, statusFile, resultsFile,
                            baseDirExists, tech_file, extracted,
                            progressDropped >>

\* the variables of the file index
index == << node_dir_exists, tree, file_cache, path_cache, seen, refreshed >>
sel == << specific_file, specific_exists, tech_files, selected >>
ext == << cmd_ok, dirs_found, attempts >>
poll == << hb_doc, hb_pc, hb_n, hb_read >>
host == << procs, child_pids, cl_pc >>

store == << results, extraKeys, status, statusFile, resultsFile,
            baseDirExists, tech_file, extracted, progressDropped >>
\* what no step of main() changes: its inputs, and the state of the units
\* that are examined on their own
inputs == << baseDirCreatable, writable, py2, operation, index, sel, ext,
            poll, host >>
\* the use the checks make of the node directory and of the shared index
use   == << cache_builds, cache_tree, tree_writes, served_by >>
env   == << inputs, use >>
sig   == << handling, hpath, interrupts, swallowed, hung >>
hist  == << invoked, faulted, deviant, startEntry, scriptError >>

MainInit ==
    /\ pc = "mkbase"
    /\ path = << >>
    /\ cur = 0
    /\ results = results_init
    /\ extraKeys = {}
    /\ status = status_init
    /\ statusFile = NoStatusFile
    /\ resultsFile = NoResultsFile
    /\ baseDirExists \in BOOLEAN
    /\ baseDirCreatable \in BOOLEAN
    /\ baseDirExists => baseDirCreatable
    /\ writable \in BOOLEAN
    /\ writable => baseDirCreatable
    /\ py2 \in BOOLEAN
    /\ operation \in { "generate", "select" }
    /\ tech_file = "unset"
    /\ copied = FALSE
    /\ extracted = FALSE
    /\ retcode = -1
    /\ exitCode = -1
    /\ handling = FALSE
    /\ hpath = << >>
    /\ interrupts = 0
    /\ swallowed = FALSE
    /\ hung = FALSE
    /\ invoked = << >>
    /\ faulted = {}
    /\ deviant = {}
    /\ startEntry = results_init
    /\ scriptError = FALSE
    /\ progressDropped = FALSE
    /\ cache_builds = 0
    /\ cache_tree = -1
    /\ tree_writes = 0
    /\ served_by = {}

(***************************************************************************)
(* FileCache.  File names, relative paths and patterns are sequences of    *)
(* characters; the full path of a file is its relative path behind the     *)
(* base directory, written "/" here.                                       *)
(***************************************************************************)
\* files in a tree
MaxFiles == 3
\* length up to which a list stored in file_cache is followed
MaxListLen == 4

\* one file: the directory it is in (relative to base_dir) and its name
File(d, n) == [ dir |-> d, name |-> n ]

\* names are sequences of characters: "s" stands for a log stem, "d" for a
\* directory, "x" for a suffix; "s*" is a file whose name really contains
\* the asterisk, <<"s", "x">> the directory sx
FileUniverse ==
    { File(<< >>, << "s" >>),
      File(<< "d" >>, << "s" >>),
      File(<< >>, << "s", "*" >>),
      File(<< "d" >>, << "s", "x" >>),
      File(<< "s", "x" >>, << "x" >>) }

\* os.path.relpath(full_path, base_dir) and os.path.join(root, file)
RelPath(f)  == IF f.dir = << >> THEN f.name ELSE f.dir \o << "/" >> \o f.name
FullPath(f) == << "/" >> \o RelPath(f)

\* os.walk is top-down: the files of base_dir first, and the files of one
\* directory together
IsWalkOrder(t) ==
    /\ \A i, j \in 1..Len(t) : i # j => t[i] # t[j]
    /\ \A i, j \in 1..Len(t) : (i < j /\ t[j].dir = << >>) => t[i].dir = << >>
    /\ \A i, j, k \in 1..Len(t) :
          (i < k /\ k < j /\ t[i].dir = t[j].dir) => t[k].dir = t[i].dir

RECURSIVE SeqsOver(_, _)
SeqsOver(S, n) ==
    IF n = 0 THEN { << >> }
    ELSE LET shorter == SeqsOver(S, n - 1)
         IN  shorter \cup { Append(t, f) : t \in shorter, f \in S }

Trees == { t \in SeqsOver(FileUniverse, MaxFiles) : IsWalkOrder(t) }

\* the patterns looked up: a bare name, another one, a name wildcard, a
\* path wildcard (as in "sm.log*" and "*/sm/sm.log*"), everything
SmLogPattern  == << "s", "*" >>
SmPathPattern == << "*", "/", "s", "*" >>
Patterns ==
    { << "s" >>, << "x" >>, SmLogPattern, SmPathPattern, << "*" >> }

\* fnmatch.fnmatch(s, p) for patterns of literal characters and "*"
RECURSIVE fnmatch(_, _)
fnmatch(str, pat) ==
    IF pat = << >> THEN str = << >>
    ELSE IF Head(pat) = "*"
         THEN \/ fnmatch(str, Tail(pat))
              \/ str # << >> /\ fnmatch(Tail(str), pat)
         ELSE /\ str # << >>
              /\ Head(str) = Head(pat)
              /\ fnmatch(Tail(str), Tail(pat))

\* `pat in str'
Contains(str, pat) ==
    \E i \in 0..(Len(str) - Len(pat)) : SubSeq(str, i + 1, i + Len(pat)) = pat

\* index of the entry of a dict (a sequence of key/value records in
\* insertion order) with the given key, 0 if there is none
KeyIndex(dict, key) ==
    IF \E i \in 1..Len(dict) : dict[i].key = key
    THEN CHOOSE i \in 1..Len(dict) : dict[i].key = key
    ELSE 0

\* _scan_once, one file after the other
RECURSIVE ScanFiles(_, _, _)
ScanFiles(t, fc, pcache) ==
    IF t = << >> THEN [ file_cache |-> fc, path_cache |-> pcache ]
    ELSE LET f  == Head(t)
             i  == KeyIndex(fc, f.name)
             j  == KeyIndex(pcache, RelPath(f))
             fc2 == IF i = 0
                    THEN Append(fc, [ key |-> f.name, val |-> << FullPath(f) >> ])
                    ELSE [ fc EXCEPT ![i].val = Append(@, FullPath(f)) ]
             pc2 == IF j = 0
                    THEN Append(pcache, [ key |-> RelPath(f), val |-> FullPath(f) ])
                    ELSE [ pcache EXCEPT ![j].val = FullPath(f) ]
         IN  ScanFiles(Tail(t), fc2, pc2)

\* the two maps after __init__ or refresh(): both start empty, and stay
\* empty when base_dir does not exist
_scan_once(t) ==
    IF ~node_dir_exists THEN [ file_cache |-> << >>, path_cache |-> << >> ]
    ELSE ScanFiles(t, << >>, << >>)

\* the wildcard loop of find_files over file_cache.items()
RECURSIVE NameMatches(_, _)
NameMatches(fc, pat) ==
    IF fc = << >> THEN << >>
    ELSE (IF fnmatch(Head(fc).key, pat) THEN Head(fc).val ELSE << >>)
         \o NameMatches(Tail(fc), pat)

\* the path loop of find_files over path_cache.items()
RECURSIVE PathMatches(_, _, _)
PathMatches(pcache, pat, matches) ==
    IF pcache = << >> THEN matches
    ELSE LET e == Head(pcache)
             hit == fnmatch(e.key, pat) \/ Contains(e.key, pat)
             new == \A k \in 1..Len(matches) : matches[k] # e.val
         IN  PathMatches(Tail(pcache), pat,
                         IF hit /\ new THEN Append(matches, e.val) ELSE matches)

\* a lookup that puts the path matches behind the name matches as they come
ConcatenatedStages(fc, pcache, pat) ==
    IF KeyIndex(fc, pat) # 0
    THEN fc[KeyIndex(fc, pat)].val
    ELSE NameMatches(fc, pat) \o PathMatches(pcache, pat, << >>)

\* FileCache.find_files(pattern).  For a pattern that is a key of file_cache
\* the list returned is the list stored in the map, not a copy of it.
find_files(fc, pcache, pat) ==
    IF KeyIndex(fc, pat) # 0
    THEN fc[KeyIndex(fc, pat)].val
    ELSE PathMatches(pcache, pat, NameMatches(fc, pat))

NoCalls == [ p \in Patterns |-> [ called |-> FALSE, result |-> << >> ] ]

\* no FileCache exists
IndexIdle ==
    /\ node_dir_exists = FALSE
    /\ tree = << >>
    /\ file_cache = << >>
    /\ path_cache = << >>
    /\ seen = NoCalls
    /\ refreshed = FALSE

(***************************************************************************)
(* select_techsupport(specific_file): its inputs.                          *)
(***************************************************************************)
\* archives in /techsupport that match the node's name
MaxArchives == 2
\* distinct modification times
MaxMtime == 2

ArchiveNames == << "a1", "a2", "a3", "a4" >>
Archives == { ArchiveNames[i] : i \in 1..MaxArchives }

\* the results glob.glob can give: every archive at most once, in any order
Listings ==
    { l \in SeqsOver([ path : Archives, mtime : 1..MaxMtime ], MaxArchives) :
        \A i, j \in 1..Len(l) : i # j => l[i].path # l[j].path }

\* tech_files.sort(key=getmtime, reverse=True); tech_files[0]: the sort is
\* stable, so of the files of the latest time the one glob listed first
Newest(l) ==
    LET first == CHOOSE i \in 1..Len(l) :
                    \A j \in 1..Len(l) :
                        IF j < i THEN l[j].mtime < l[i].mtime
                                 ELSE l[j].mtime <= l[i].mtime
    IN  l[first].path

\* select_techsupport is not being looked at
SelectIdle ==
    /\ specific_file = "unset"
    /\ specific_exists = FALSE
    /\ tech_files = << >>
    /\ selected = "pending"

(***************************************************************************)
(* extract_techsupport(node_dir, file_name): its inputs.                   *)
(***************************************************************************)
\* the commands the module knows for unpacking an archive, in the order
\* extract_techsupport_optimized gives them: tar -xzf, tar -xf,
\* gzip -dc | tar -xf -
ExtractionStrategies == << "xzf", "xf", "gz" >>

StrategySet == { ExtractionStrategies[i] : i \in 1..Len(ExtractionStrategies) }

\* extract_techsupport is not being looked at
ExtractIdle ==
    /\ cmd_ok = [ c \in StrategySet |-> FALSE ]
    /\ dirs_found = FALSE
    /\ attempts = << >>

(***************************************************************************)
(* update_status as an external poller of STATUS_FILE sees it.             *)
(***************************************************************************)
\* update_status calls of main() that are followed
MaxHeartbeats == 4

NoDocument  == [ kind |-> "absent", n |-> 0 ]    \* the file does not exist
EmptyDoc    == [ kind |-> "empty", n |-> 0 ]     \* zero bytes
BrokenDoc   == [ kind |-> "broken", n |-> 0 ]    \* bytes of two records
Record(n)   == [ kind |-> "record", n |-> n ]    \* the n-th record, whole
\* the record signal_handler writes
InterruptedRecord == [ kind |-> "record", n |-> MaxHeartbeats + 1 ]
NothingRead == [ kind |-> "unread", n |-> 0 ]

\* update_status is not being looked at
HeartbeatIdle ==
    /\ hb_doc = NoDocument
    /\ hb_pc = "idle"
    /\ hb_n = 0
    /\ hb_read = NothingRead

(***************************************************************************)
(* cleanup_processes() and the processes of the host.                      *)
(***************************************************************************)
\* processes on the host besides the run itself
MaxProcs == 3

\* a process: its parent (this run or something else), what its command
\* line looks like to pkill -f, whether SIGTERM ends it, whether it runs
ProcessKinds ==
    [ parent : { "self", "other" },
      cmd    : { "tar -xzf", "gzip", "other" },
      heedsTerm : BOOLEAN,
      alive  : { TRUE } ]

\* cleanup_processes is not being looked at
CleanupIdle ==
    /\ procs = << >>
    /\ child_pids = {}
    /\ cl_pc = "idle"

\* the units that are examined on their own are idle
UnitsIdle ==
    IndexIdle /\ SelectIdle /\ ExtractIdle /\ HeartbeatIdle /\ CleanupIdle

\* the start of a run of main()
Init == MainInit /\ UnitsIdle

\* main() at rest in one fixed environment, while a unit is examined
MainIdle ==
    /\ MainInit
    /\ baseDirExists /\ writable /\ ~py2 /\ operation = "select"

\* get_file_cache() on first use: FileCache(node_dir)
CacheInit ==
    /\ MainIdle /\ SelectIdle /\ ExtractIdle /\ HeartbeatIdle /\ CleanupIdle
    /\ node_dir_exists \in BOOLEAN
    /\ tree \in Trees
    /\ ~node_dir_exists => tree = << >>
    /\ file_cache = _scan_once(tree).file_cache
    /\ path_cache = _scan_once(tree).path_cache
    /\ seen = NoCalls
    /\ refreshed = FALSE

main_vars ==
    << pc, path, cur, store, baseDirCreatable, writable, py2, operation, sig,
       hist, copied, retcode, exitCode, sel, ext, use >>

Remember(p, r) ==
    IF seen[p].called THEN seen
    ELSE [ seen EXCEPT ![p] = [ called |-> TRUE, result |-> r ] ]

\* cache.find_files(p) by a caller that only reads the list it gets
FindFiles ==
    /\ \E p \in Patterns :
          seen' = Remember(p, find_files(file_cache, path_cache, p))
    /\ UNCHANGED << node_dir_exists, tree, file_cache, path_cache, refreshed,
                    main_vars, poll, host >>

\* check_CA_CSCwm35992: sm_log_files = cache.find_files("sm.log*");
\* sm_log_files.extend(cache.find_files("*/sm/sm.log*")).  When the first
\* list is the one stored in file_cache, extend() changes the stored list.
FindSmLogs ==
    LET first  == find_files(file_cache, path_cache, SmLogPattern)
        second == find_files(file_cache, path_cache, SmPathPattern)
        i      == KeyIndex(file_cache, SmLogPattern)
    IN  /\ Len(first) + Len(second) <= MaxListLen
        /\ seen' = [ Remember(SmLogPattern, first) EXCEPT
                       ![SmPathPattern] =
                          IF seen[SmPathPattern].called THEN @
                          ELSE [ called |-> TRUE, result |-> second ] ]
        /\ file_cache' = IF i = 0 THEN file_cache
                         ELSE [ file_cache EXCEPT ![i].val = first \o second ]
        /\ UNCHANGED << node_dir_exists, tree, path_cache, refreshed,
                        main_vars, poll, host >>

\* FileCache.refresh() on the unchanged tree
Refresh ==
    /\ file_cache' = _scan_once(tree).file_cache
    /\ path_cache' = _scan_once(tree).path_cache
    /\ refreshed' = TRUE
    /\ UNCHANGED << node_dir_exists, tree, seen, main_vars, poll, host >>

CacheNext == FindFiles \/ FindSmLogs \/ Refresh

CacheSpec == CacheInit /\ [][CacheNext]_vars

\* main() is executing: no signal handler is on the stack and it is not
\* waiting for a command
Running == ~handling /\ pc # "exited" /\ ~hung

(***************************************************************************)
(* main(): set-up.                                                         *)
(***************************************************************************)
\* entry into `except Exception as e:' of main()
EnterScriptError ==
    /\ pc' = "scripterr"
    /\ path' = ScriptErrorPath(results)
    /\ scriptError' = TRUE

\* os.makedirs(BASE_DIR)
MkBaseDir ==
    /\ Running /\ pc = "mkbase"
    /\ IF baseDirExists \/ baseDirCreatable
       THEN /\ baseDirExists' = TRUE
            /\ pc' = "tmpspace"
            /\ UNCHANGED << path, scriptError >>
       ELSE /\ EnterScriptError
            /\ UNCHANGED baseDirExists
    /\ UNCHANGED << cur, results, extraKeys, status, statusFile, resultsFile,
                    tech_file, extracted, progressDropped, env, sig, copied,
                    retcode, exitCode, invoked, faulted, deviant, startEntry >>

\* check_tmp_space(): its result is not used
check_tmp_space ==
    /\ Running /\ pc = "tmpspace"
    /\ pc' = "acquire"
    /\ UNCHANGED << path, cur, store, env, sig, hist, copied, retcode, exitCode >>

\* tech_file = generate_techsupport(nd_version) / select_techsupport(path)
GenerateTechsupport ==
    /\ Running /\ pc = "acquire" /\ operation = "generate"
    /\ \E p \in generate_techsupport : path' = p
    /\ pc' = "acquiring"
    /\ UNCHANGED << cur, store, env, sig, hist, copied, retcode, exitCode >>

SelectTechsupport ==
    /\ Running /\ pc = "acquire" /\ operation # "generate"
    /\ \E p \in select_techsupport : path' = p
    /\ pc' = "acquiring"
    /\ UNCHANGED << cur, store, env, sig, hist, copied, retcode, exitCode >>

\* pcs at which main() is inside a function modelled by its writes
Stepping ==
    { "acquiring", "noarchive", "extracting", "check_run", "check_handle",
      "complete", "scripterr" }

\* the next statement of the running function
Step ==
    /\ Running /\ pc \in Stepping
    /\ path # << >> /\ Head(path).k # "raise"
    /\ Apply(Head(path))
    /\ path' = Tail(path)
    /\ UNCHANGED << pc, cur, env, sig, hist, copied, retcode, exitCode >>

\* `if not tech_file:'
AcquireReturn ==
    /\ Running /\ pc = "acquiring" /\ path = << >>
    /\ IF tech_file = "file"
       THEN pc' = "mknode" /\ path' = << >>
       ELSE pc' = "noarchive" /\ path' = NoArchivePath
    /\ UNCHANGED << cur, store, env, sig, hist, copied, retcode, exitCode >>

\* `return 1' of the no-archive branch: on to the finally clause
NoArchiveReturn ==
    /\ Running /\ pc = "noarchive" /\ path = << >>
    /\ retcode' = 1
    /\ pc' = "cleanup_ps"
    /\ UNCHANGED << path, cur, store, env, sig, hist, copied, exitCode >>

\* os.makedirs(node_dir)
MkNodeDir ==
    /\ Running /\ pc = "mknode"
    /\ \/ pc' = "copy" /\ UNCHANGED << path, scriptError >>
       \/ EnterScriptError
    /\ UNCHANGED << cur, store, env, sig, copied, retcode, exitCode,
                    invoked, faulted, deviant, startEntry >>

\* run_command("cp tech_file dest_path"): the outcome is not looked at
CopyArchive ==
    /\ Running /\ pc = "copy"
    /\ copied' \in BOOLEAN
    /\ pc' = "extract"
    /\ UNCHANGED << path, cur, store, env, sig, hist, retcode, exitCode >>

\* extract_techsupport(node_dir, file_name)
ExtractTechsupport ==
    /\ Running /\ pc = "extract"
    /\ \E p \in extract_techsupport(copied) : path' = p
    /\ pc' = "extracting"
    /\ UNCHANGED << cur, store, env, sig, hist, copied, retcode, exitCode >>

\* extract_techsupport returns nothing: main() goes on to the first check
ExtractReturn ==
    /\ Running /\ pc = "extracting" /\ path = << >>
    /\ cur' = 1
    /\ pc' = "check_invoke"
    /\ UNCHANGED << path, store, env, sig, hist, copied, retcode, exitCode >>

\* a get_file_cache that makes a new FileCache on every call
FreshCacheEveryCall(n) == n + 1

\* get_file_cache(): the number of FileCache objects made so far, after the
\* call.  _file_cache is None before the first call only, and base_dir is
\* the same string at every call.
get_file_cache(n) == IF n = 0 THEN 1 ELSE n

\* extract_from_techsupport(tech_file, pattern, destination=<under node_dir>)
\* makes the destination directory and unpacks into it: check_disk_space
\* does it always, check_pods when the archive path exists
WritesTree(c, archiveExists) ==
    \/ c = "disk_space"
    \/ c = "pod_status" /\ archiveExists

(***************************************************************************)
(* main(): the thirteen try blocks.                                        *)
(***************************************************************************)
\* a runner that gives up after a check that ended FAIL
NextUnlessFailed(i, res) ==
    IF res[CheckOrder[i]].status = "FAIL" THEN NumChecks + 1 ELSE i + 1

\* the try block main() enters after the one of check i: the blocks follow
\* one another, none is skipped
NextCheck(i, res) == i + 1

\* an exit code that reflects the verdicts
CodeFromVerdicts(res) ==
    IF \E c \in CheckNames : res[c].status \in { "FAIL", "ERROR" } THEN 1 ELSE 0

\* the value of main()'s `return' after the completion heartbeat
CompletionCode(res) == 0

\* the check's call and its opening update_status
CheckInvoke ==
    /\ Running /\ pc = "check_invoke"
    /\ invoked' = Append(invoked, CheckOrder[cur])
    /\ startEntry' = results
    /\ update_status(Hb("running", CheckProgress(CheckOrder[cur])))
    /\ pc' = "check_query"
    /\ UNCHANGED << path, cur, env, sig, copied, retcode, exitCode,
                    faulted, deviant, scriptError >>

\* the check reads its evidence (files of the archive, command output):
\* what it finds decides the path it takes
CheckObserve ==
    /\ Running /\ pc = "check_query"
    /\ LET c == CheckOrder[cur]
       IN  /\ \E k \in 1..Len(CheckPaths(c)) :
                /\ k = 1 \/ c \in deviant
                         \/ Cardinality(deviant) < MaxDeviantChecks
                /\ path' = CheckPaths(c)[k]
                /\ deviant' = IF k = 1 THEN deviant ELSE deviant \cup { c }
           /\ IF c \in EvidenceChecks
              THEN \* cache = get_file_cache(); cache.find_files(...)
                   /\ cache_builds' = get_file_cache(cache_builds)
                   /\ cache_tree' = IF cache_builds' = cache_builds
                                    THEN cache_tree ELSE tree_writes
                   /\ served_by' = served_by \cup { cache_builds' }
                   /\ UNCHANGED tree_writes
              ELSE /\ tree_writes' = IF WritesTree(c, copied)
                                     THEN tree_writes + 1 ELSE tree_writes
                   /\ UNCHANGED << cache_builds, cache_tree, served_by >>
    /\ pc' = "check_run"
    /\ UNCHANGED << cur, store, inputs, sig, copied, retcode, exitCode,
                    invoked, faulted, startEntry, scriptError >>

\* the statement the check has reached raises an exception of its own
CheckRaise ==
    /\ Running /\ pc = "check_run"
    /\ path # << >> /\ Head(path).k = "raise"
    /\ path' = Boundary(CheckOrder[cur])
    /\ pc' = "check_handle"
    /\ UNCHANGED << cur, store, env, sig, hist, copied, retcode, exitCode >>

\* an exception from the environment (I/O error, memory, a malformed record)
\* at whatever statement the check has reached
CheckFault ==
    /\ Running /\ pc \in { "check_query", "check_run" }
    /\ LET c == CheckOrder[cur]
       IN  /\ c \in deviant \/ Cardinality(deviant) < MaxDeviantChecks
           /\ deviant' = deviant \cup { c }
           /\ path' = Boundary(c)
    /\ pc' = "check_handle"
    /\ UNCHANGED << cur, store, env, sig, copied, retcode, exitCode,
                    invoked, faulted, startEntry, scriptError >>

\* where main() goes after try block number cur
AfterCheck ==
    /\ cur' = NextCheck(cur, results)
    /\ IF cur' > NumChecks
       THEN pc' = "complete" /\ path' = CompletePath
       ELSE pc' = "check_invoke" /\ path' = << >>

\* the check returned
CheckReturn ==
    /\ Running /\ pc = "check_run" /\ path = << >>
    /\ AfterCheck
    /\ UNCHANGED << store, env, sig, hist, copied, retcode, exitCode >>

\* the except clause at the check's boundary ran to its end
BoundaryReturn ==
    /\ Running /\ pc = "check_handle" /\ path = << >>
    /\ faulted' = faulted \cup { CheckOrder[cur] }
    /\ AfterCheck
    /\ UNCHANGED << store, env, sig, copied, retcode, exitCode,
                    invoked, deviant, startEntry, scriptError >>

\* `return 0'
CompleteReturn ==
    /\ Running /\ pc = "complete" /\ path = << >>
    /\ retcode' = CompletionCode(results)
    /\ pc' = "cleanup_ps"
    /\ UNCHANGED << path, cur, store, env, sig, hist, copied, exitCode >>

\* `return 1' of the outer except clause
ScriptErrorReturn ==
    /\ Running /\ pc = "scripterr" /\ path = << >>
    /\ retcode' = 1
    /\ pc' = "cleanup_ps"
    /\ UNCHANGED << path, cur, store, env, sig, hist, copied, exitCode >>

(***************************************************************************)
(* finally: cleanup_processes(), then sys.exit(main()).                    *)
(***************************************************************************)
CleanupStages == << "cleanup_ps", "cleanup_term", "cleanup_kill", "cleanup_pkill" >>

\* the stages whose commands run under `try: ... except: pass'
BareExceptStages == { "cleanup_term", "cleanup_kill", "cleanup_pkill" }

\* the check units that run an external command through run_command
RunsCommand(c) ==
    \/ c \in { "subnet_check", "ping_check", "node_status", "disk_space",
               "system_health", "certificate_check", "iso_check" }
    \/ c = "pod_status" /\ copied

\* one stage of cleanup_processes: list the children, SIGTERM them,
\* SIGKILL the survivors
cleanup_processes ==
    /\ Running
    /\ \E i \in 1..(Len(CleanupStages) - 1) :
          pc = CleanupStages[i] /\ pc' = CleanupStages[i + 1]
    /\ UNCHANGED << path, cur, store, env, sig, hist, copied, retcode, exitCode >>

\* the final pkill, the return of main() and sys.exit
Exit ==
    /\ Running /\ pc = "cleanup_pkill"
    /\ exitCode' = retcode
    /\ pc' = "exited"
    /\ UNCHANGED << path, cur, store, env, sig, hist, copied, retcode >>

(***************************************************************************)
(* SIGINT.                                                                 *)
(***************************************************************************)
\* the interpreter calls signal_handler between two bytecodes of main()
Interrupt ==
    /\ Running /\ interrupts < MaxInterrupts
    /\ handling' = TRUE
    /\ hpath' = signal_handler
    /\ interrupts' = interrupts + 1
    /\ UNCHANGED << pc, path, cur, store, env, hist, copied, retcode,
                    exitCode, swallowed, hung >>

\* the next statement of signal_handler
HandlerStep ==
    /\ handling /\ hpath # << >>
    /\ Apply(Head(hpath))
    /\ hpath' = Tail(hpath)
    /\ UNCHANGED << pc, path, cur, env, hist, copied, retcode, exitCode,
                    handling, interrupts, swallowed, hung >>

\* main() is inside a `try: ... except:' that catches SystemExit: a stage of
\* cleanup_processes, or (Python 2 only) communicate() in run_command_unified
InBareExcept ==
    \/ pc \in BareExceptStages
    \/ /\ py2
       /\ \/ pc \in { "tmpspace", "copy" }
          \/ pc = "check_query" /\ RunsCommand(CheckOrder[cur])

\* sys.exit(130) of signal_handler: SystemExit unwinds main() through its
\* finally clause
HandlerExit ==
    /\ handling /\ hpath = << >>
    /\ handling' = FALSE
    /\ IF pc \in { CleanupStages[i] : i \in 1..Len(CleanupStages) }
       THEN /\ pc' = "exited"
            /\ exitCode' = 130
            /\ UNCHANGED << path, retcode >>
       ELSE /\ pc' = "cleanup_ps"
            /\ path' = << >>
            /\ retcode' = 130
            /\ UNCHANGED exitCode
    /\ UNCHANGED << cur, store, env, hist, copied, hpath, interrupts,
                    swallowed, hung >>

\* sys.exit(130) of signal_handler, raised inside a bare except: the
\* exception is dropped and main() carries on
HandlerSwallowed ==
    /\ handling /\ hpath = << >>
    /\ InBareExcept
    /\ handling' = FALSE
    /\ swallowed' = TRUE
    /\ UNCHANGED hung
    /\ UNCHANGED << pc, path, cur, store, env, hist, copied, retcode,
                    exitCode, hpath, interrupts >>

Next ==
    \/ MkBaseDir
    \/ check_tmp_space
    \/ GenerateTechsupport
    \/ SelectTechsupport
    \/ Step
    \/ AcquireReturn
    \/ NoArchiveReturn
    \/ MkNodeDir
    \/ CopyArchive
    \/ ExtractTechsupport
    \/ ExtractReturn
    \/ CheckInvoke
    \/ CheckObserve
    \/ CheckRaise
    \/ CheckFault
    \/ CheckReturn
    \/ BoundaryReturn
    \/ CompleteReturn
    \/ ScriptErrorReturn
    \/ cleanup_processes
    \/ Exit
    \/ Interrupt
    \/ HandlerStep
    \/ HandlerExit
    \/ HandlerSwallowed

Spec == Init /\ [][Next]_vars

(***************************************************************************)
(* The heartbeat document under an external poller.                        *)
(***************************************************************************)
HeartbeatInit ==
    /\ MainIdle /\ IndexIdle /\ SelectIdle /\ ExtractIdle /\ CleanupIdle
    /\ hb_doc = NoDocument
    /\ hb_pc = "idle"
    /\ hb_n = 0
    /\ hb_read = NothingRead

\* update_status: open(STATUS_FILE, 'w') creates or truncates the file
HbOpen ==
    /\ hb_pc = "idle" /\ hb_n < MaxHeartbeats
    /\ hb_n' = hb_n + 1
    /\ hb_doc' = EmptyDoc
    /\ hb_pc' = "dumping"
    /\ UNCHANGED << hb_read, main_vars, index, host >>

\* update_status: json.dump fills the buffer of f, the end of the with
\* block writes it out
HbClose ==
    /\ hb_pc = "dumping"
    /\ hb_doc' = Record(hb_n)
    /\ hb_pc' = "idle"
    /\ UNCHANGED << hb_n, hb_read, main_vars, index, host >>

\* SIGINT: signal_handler calls update_status, which opens the file again;
\* main() may be inside its own update_status
HbHandlerOpen ==
    /\ hb_pc \in { "idle", "dumping" }
    /\ hb_doc' = EmptyDoc
    /\ hb_pc' = IF hb_pc = "idle" THEN "handler" ELSE "handler_nested"
    /\ UNCHANGED << hb_n, hb_read, main_vars, index, host >>

\* the update_status of signal_handler writes its record out
HbHandlerClose ==
    /\ hb_pc \in { "handler", "handler_nested" }
    /\ hb_doc' = InterruptedRecord
    /\ hb_pc' = IF hb_pc = "handler" THEN "exited" ELSE "unwinding"
    /\ UNCHANGED << hb_n, hb_read, main_vars, index, host >>

\* sys.exit(130) leaves the with block of the interrupted update_status of
\* main(): f is closed, and what json.dump had put into its buffer (nothing,
\* a part, or all of the record) is written at the start of the file
HbUnwind ==
    /\ hb_pc = "unwinding"
    /\ hb_doc' \in { hb_doc, BrokenDoc, Record(hb_n) }
    /\ hb_pc' = "exited"
    /\ UNCHANGED << hb_n, hb_read, main_vars, index, host >>

\* the poller reads STATUS_FILE
HbPoll ==
    /\ hb_read' = hb_doc
    /\ UNCHANGED << hb_doc, hb_pc, hb_n, main_vars, index, host >>

HeartbeatNext ==
    HbOpen \/ HbClose \/ HbHandlerOpen \/ HbHandlerClose \/ HbUnwind \/ HbPoll

HeartbeatSpec == HeartbeatInit /\ [][HeartbeatNext]_vars

(***************************************************************************)
(* cleanup_processes() among the processes of the host.                    *)
(***************************************************************************)
CleanupInit ==
    /\ MainIdle /\ IndexIdle /\ SelectIdle /\ ExtractIdle /\ HeartbeatIdle
    /\ procs \in [ 1..MaxProcs -> ProcessKinds ]
    /\ child_pids = {}
    /\ cl_pc = "ps"

Kill(pids) ==
    [ p \in 1..MaxProcs |->
        IF p \in pids THEN [ procs[p] EXCEPT !.alive = FALSE ] ELSE procs[p] ]

\* ps -eo pid,ppid,stat,cmd | grep <our pid>: the lines whose second
\* field is our pid; an exception here leads to the pkill commands
ClListChildren ==
    /\ cl_pc = "ps"
    /\ \/ /\ child_pids' = { p \in 1..MaxProcs : procs[p].parent = "self" }
          /\ cl_pc' = "term"
       \/ /\ child_pids' = {}
          /\ cl_pc' = "pkill"
    /\ UNCHANGED << procs, main_vars, index, poll >>

\* kill -TERM <pid> for every child
ClTerminate ==
    /\ cl_pc = "term"
    /\ procs' = Kill({ p \in child_pids : procs[p].heedsTerm })
    /\ cl_pc' = "kill"
    /\ UNCHANGED << child_pids, main_vars, index, poll >>

\* kill -9 <pid> for every child that still has its /proc entry
ClForceKill ==
    /\ cl_pc = "kill"
    /\ procs' = Kill({ p \in child_pids : procs[p].alive })
    /\ cl_pc' = "pkill"
    /\ UNCHANGED << child_pids, main_vars, index, poll >>

\* pkill -9 -f 'tar -x[z]f' and pkill -9 -f gzip: every process of the host
\* whose command line matches
ClPkill ==
    /\ cl_pc = "pkill"
    /\ procs' = Kill({ p \in 1..MaxProcs : procs[p].cmd \in { "tar -xzf", "gzip" } })
    /\ cl_pc' = "done"
    /\ UNCHANGED << child_pids, main_vars, index, poll >>

CleanupNext == ClListChildren \/ ClTerminate \/ ClForceKill \/ ClPkill

CleanupSpec == CleanupInit /\ [][CleanupNext]_vars

(***************************************************************************)
(* Runs without SIGINT, with commands that may never return.               *)
(***************************************************************************)
\* main() is at a command it waits for without a time limit:
\* subprocess.check_output in ping(), the kubectl pipe of check_pods read
\* to its end, the ps of cleanup_processes, and under Python 2 every
\* run_command (communicate() takes no timeout there)
UntimedCommand ==
    \/ pc = "check_query" /\ CheckOrder[cur] = "ping_check"
    \/ pc = "check_query" /\ CheckOrder[cur] = "pod_status" /\ copied
    \/ pc = "cleanup_ps"
    \/ /\ py2
       /\ \/ pc \in { "tmpspace", "copy" }
          \/ pc = "check_query" /\ RunsCommand(CheckOrder[cur])

\* the command does not return by itself
CommandHangs ==
    /\ Running /\ UntimedCommand
    /\ hung' = TRUE
    /\ UNCHANGED << pc, path, cur, store, env, hist, copied, retcode,
                    exitCode, handling, hpath, interrupts, swallowed >>

UninterruptedNext ==
    \/ MkBaseDir
    \/ check_tmp_space
    \/ GenerateTechsupport
    \/ SelectTechsupport
    \/ Step
    \/ AcquireReturn
    \/ NoArchiveReturn
    \/ MkNodeDir
    \/ CopyArchive
    \/ ExtractTechsupport
    \/ ExtractReturn
    \/ CheckInvoke
    \/ CheckObserve
    \/ CheckRaise
    \/ CheckFault
    \/ CheckReturn
    \/ BoundaryReturn
    \/ CompleteReturn
    \/ ScriptErrorReturn
    \/ cleanup_processes
    \/ Exit
    \/ CommandHangs

\* the interpreter goes on executing main() as long as it can
LiveSpec == Init /\ [][UninterruptedNext]_vars /\ WF_vars(UninterruptedNext)

(***************************************************************************)
(* main() up to the return of select_techsupport, with the function's      *)
(* inputs spelled out.                                                     *)
(***************************************************************************)
SelectInit ==
    /\ MainInit /\ operation = "select" /\ IndexIdle /\ ExtractIdle
    /\ HeartbeatIdle /\ CleanupIdle
    /\ specific_file \in { "unset", "given" }
    /\ specific_exists \in BOOLEAN
    /\ specific_file = "unset" => ~specific_exists
    /\ tech_files \in Listings
    /\ selected = "pending"

\* tech_file = select_techsupport(tech_support_path)
SelectCall ==
    /\ Running /\ pc = "acquire" /\ operation # "generate"
    /\ pc' = "acquiring"
    /\ IF specific_file # "unset" /\ specific_exists
       THEN /\ selected' = specific_file
            /\ path' = << Hb("running", 10), Hb("running", 20), Ret("file") >>
       ELSE IF tech_files = << >>
       THEN /\ selected' = "none"
            /\ path' = << Hb("running", 10), St(ts, "FAIL"),
                          App(ts, "finding"), Hb("error", 10), Ret("none") >>
       ELSE /\ selected' = Newest(tech_files)
            /\ path' = << Hb("running", 10), Hb("running", 20), Ret("file") >>
    /\ UNCHANGED << cur, store, baseDirCreatable, writable, py2, operation,
                    index, ext, use, poll, host, specific_file,
                    specific_exists,
                    tech_files, sig,
                    hist, copied, retcode, exitCode >>

SelectNext == MkBaseDir \/ check_tmp_space \/ SelectCall \/ Step

SelectSpec == SelectInit /\ [][SelectNext]_vars

(***************************************************************************)
(* main() up to the return of extract_techsupport, with the outcome of     *)
(* each command spelled out.                                               *)
(***************************************************************************)
ExtractInit ==
    /\ MainInit /\ operation = "select" /\ IndexIdle /\ SelectIdle
    /\ HeartbeatIdle /\ CleanupIdle
    /\ cmd_ok \in [ StrategySet -> BOOLEAN ]
    /\ dirs_found \in BOOLEAN
    /\ attempts = << >>

\* extract_techsupport(node_dir, file_name).  The commands run on logs.tgz
\* change nothing the function looks at afterwards.
ExtractCall ==
    /\ Running /\ pc = "extract"
    /\ pc' = "extracting"
    /\ LET begin == << Hb("running", 50) >>
           failed(n) == << St(ts, "FAIL"), App(ts, "finding"),
                           Hb("error", n), Ret("notextracted") >>
           done == << Set(ts, << "ok" >>), Hb("running", 90),
                      Ret("extracted") >>
       IN  IF ~copied
           THEN \* file_path does not exist
                /\ attempts' = << >>
                /\ path' = begin \o failed(50)
           ELSE \/ \* getsize or the df output raises: except Exception
                   /\ attempts' = << >>
                   /\ path' = begin \o failed(70)
                \/ /\ attempts' = IF cmd_ok["xzf"] THEN << "xzf" >>
                                                   ELSE << "xzf", "xf" >>
                   /\ path' = begin \o
                         (IF ~(cmd_ok["xzf"] \/ cmd_ok["xf"]) THEN failed(60)
                          ELSE IF ~dirs_found THEN failed(60)
                          ELSE done)
    /\ UNCHANGED << cur, store, baseDirCreatable, writable, py2, operation,
                    index, sel, use, poll, host, cmd_ok, dirs_found, sig,
                    hist,
                    copied,
                    retcode, exitCode >>

ExtractNext ==
    \/ MkBaseDir
    \/ check_tmp_space
    \/ SelectTechsupport
    \/ Step
    \/ AcquireReturn
    \/ MkNodeDir
    \/ CopyArchive
    \/ ExtractCall

ExtractSpec == ExtractInit /\ [][ExtractNext]_vars

(***************************************************************************)
(* Properties.                                                             *)
(***************************************************************************)
Exited == pc = "exited"

\* C1: fault isolation.  While the boundary handles a fault of a check, the
\* status and details of every other entry are what they were when that
\* check was called.
C1_FaultIsolation ==
    pc = "check_handle" =>
        \A e \in CheckNames \ { CheckOrder[cur] } :
            /\ results[e].status = startEntry[e].status
            /\ results[e].details = startEntry[e].details

C4_PersistedWellFormed ==
    resultsFile.written =>
        \A c \in CheckNames :
            /\ resultsFile.checks[c].status \in Statuses
            /\ resultsFile.checks[c].status # "PASS"
                  => resultsFile.checks[c].details # << >>

\* C5: when the process has exited, RESULTS_FILE has an entry for each of the
\* fifteen names, and every check unit that was never called is FAIL or ERROR
\* with a did-not-run detail.
C5_NotRunMarked ==
    (Exited /\ resultsFile.written) =>
        /\ DOMAIN resultsFile.checks = CheckNames
        /\ \A i \in 1..NumChecks :
              (\A j \in 1..Len(invoked) : invoked[j] # CheckOrder[i]) =>
                  /\ resultsFile.checks[CheckOrder[i]].status \in { "FAIL", "ERROR" }
                  /\ \E k \in 1..Len(resultsFile.checks[CheckOrder[i]].details) :
                        resultsFile.checks[CheckOrder[i]].details[k] = "didnotrun"

\* C6: an uninterrupted run that obtained no archive, or could not extract
\* the archive it obtained, exits with code 1.
C6_SetupFailureExitsOne ==
    (Exited /\ interrupts = 0 /\ tech_file \in { "none", "file" } /\ ~extracted)
        => exitCode = 1

\* C7: a run that obtained and extracted an archive, was not interrupted and
\* did not end in the script-error handler exits with code 0, whatever the
\* statuses of the checks.
C7_CompletedExitsZero ==
    (Exited /\ tech_file = "file" /\ extracted /\ interrupts = 0 /\ ~scriptError)
        => exitCode = 0

\* such a run, with a faulted check and an entry at FAIL
C7_Witness ==
    /\ Exited /\ tech_file = "file" /\ extracted /\ interrupts = 0
    /\ exitCode = 0
    /\ faulted # {}
    /\ \E c \in CheckNames : results[c].status = "FAIL"

\* C8: once signal_handler has run (on writable storage), STATUS_FILE reads
\* "interrupted", RESULTS_FILE holds the aggregate, and no later step of the
\* run writes either file again.
C8_InterruptPersisted ==
    [][ (interrupts' > 0 /\ ~handling' /\ writable) =>
            /\ statusFile'.written /\ statusFile'.status = "interrupted"
            /\ resultsFile'.written
            /\ (interrupts > 0 /\ ~handling) =>
                  (statusFile' = statusFile /\ resultsFile' = resultsFile) ]_vars

\* C9: a process that received SIGINT exits with code 130.
C9_InterruptExits130 ==
    (Exited /\ interrupts > 0) => exitCode = 130

\* C10: in a run that was not interrupted and ended with the completion
\* heartbeat, no update_status wrote a progress below the one before it.
C10_ProgressMonotone ==
    (Exited /\ interrupts = 0 /\ ~scriptError /\ status.status = "complete")
        => ~progressDropped

\* C11: when the process has exited and storage is writable, both
\* STATUS_FILE and RESULTS_FILE have been written by this run.
C11_BothDocumentsWritten ==
    (Exited /\ writable) => (statusFile.written /\ resultsFile.written)

\* C12: a run whose RESULTS_FILE could not be written does not exit 0.
C12_UnwrittenResultsNotZero ==
    (Exited /\ ~resultsFile.written) => exitCode # 0

\* C13: in an uninterrupted run whose extraction failed, every check that
\* depends on the extracted tree and was left to its own course has ended
\* WARNING with a could-not-determine detail.
C13_AbsentEvidenceWarns ==
    (tech_file = "file" /\ ~extracted /\ interrupts = 0) =>
        \A i \in 1..NumChecks :
            (i < cur /\ CheckOrder[i] \in EvidenceChecks \ deviant) =>
                /\ results[CheckOrder[i]].status = "WARNING"
                /\ \E k \in 1..Len(results[CheckOrder[i]].details) :
                      results[CheckOrder[i]].details[k] = "inconclusive"

\* C14: in an uninterrupted run, a check that has returned with status FAIL
\* and a line reporting the defect it found has all three of explanation,
\* recommendation and reference in its entry.
C14_FailCarriesAdvice ==
    interrupts = 0 =>
        \A i \in 1..NumChecks :
            LET e == results[CheckOrder[i]]
            IN  (/\ i < cur
                 /\ e.status = "FAIL"
                 /\ \E k \in 1..Len(e.details) : e.details[k] = "finding")
                => (e.explanation /\ e.recommendation /\ e.reference)

\* C15: no statement of a running check lowers the status of the check's own
\* entry in the order PASS < WARNING < FAIL < ERROR.
C15_NoDowngrade ==
    [][ LET sev(st) == CASE st = "PASS"    -> 0
                         [] st = "WARNING" -> 1
                         [] st = "FAIL"    -> 2
                         [] st = "ERROR"   -> 3
        IN  (pc = "check_run" /\ ~handling) =>
                sev(results'[CheckOrder[cur]].status)
                    >= sev(results[CheckOrder[cur]].status) ]_vars

\* C16: a check that depends on the extracted tree is called only in a run
\* whose extraction succeeded.
C16_EvidenceChecksNeedExtraction ==
    \A i \in 1..Len(invoked) : invoked[i] \in EvidenceChecks => extracted

\* the paths _scan_once recorded under a file name: one per file of that
\* name in the tree, in scan order
RECURSIVE RecordedUnder(_, _)
RecordedUnder(t, name) ==
    IF t = << >> THEN << >>
    ELSE (IF Head(t).name = name THEN << FullPath(Head(t)) >> ELSE << >>)
         \o RecordedUnder(Tail(t), name)

\* C17: for every name of a file of the tree, find_files(name) is the list
\* of the full paths of the files of that name, in scan order, and nothing
\* else.
C17_ExactNameLookup ==
    \A i \in 1..Len(tree) :
        find_files(file_cache, path_cache, tree[i].name)
            = RecordedUnder(tree, tree[i].name)

\* C18: the two maps are at all times the ones a scan of the tree builds, no
\* path is stored twice under a name, and a pattern looked up before gives
\* the result it gave the first time (the same set after a refresh).
C18_LookupsIdempotent ==
    /\ file_cache = _scan_once(tree).file_cache
    /\ path_cache = _scan_once(tree).path_cache
    /\ \A p \in Patterns :
          LET now == find_files(file_cache, path_cache, p)
          IN  /\ \A j, k \in 1..Len(now) : j # k => now[j] # now[k]
              /\ seen[p].called =>
                    /\ { now[k] : k \in 1..Len(now) }
                          = { seen[p].result[k] : k \in 1..Len(seen[p].result) }
                    /\ ~refreshed => now = seen[p].result

\* C19: once select_techsupport has returned, a given path was either
\* returned as it is (it exists) or the call failed; without a given path
\* the call returned a listed archive of the latest modification time, or
\* failed on an empty listing.
C19_ExplicitPathOrFail ==
    tech_file # "unset" =>
        IF specific_file # "unset"
        THEN /\ specific_exists => (selected = specific_file /\ tech_file = "file")
             /\ ~specific_exists => (selected = "none" /\ tech_file = "none")
        ELSE IF tech_files = << >>
        THEN selected = "none" /\ tech_file = "none"
        ELSE /\ tech_file = "file"
             /\ \E i \in 1..Len(tech_files) :
                   /\ tech_files[i].path = selected
                   /\ \A j \in 1..Len(tech_files) :
                         tech_files[j].mtime <= tech_files[i].mtime

\* C20: the commands run on the archive are tar -xzf, tar -xf and the
\* gzip pipeline in this order, each one run only after the ones before it
\* failed, and when the last one run failed all three have been run.
C20_ThreeStrategiesInOrder ==
    /\ Len(attempts) <= Len(ExtractionStrategies)
    /\ \A i \in 1..Len(attempts) :
          /\ attempts[i] = ExtractionStrategies[i]
          /\ i < Len(attempts) => ~cmd_ok[attempts[i]]
    /\ (attempts # << >> /\ ~cmd_ok[attempts[Len(attempts)]]) =>
          Len(attempts) = Len(ExtractionStrategies)

\* the index is as the last build or refresh left it
IndexAsBuilt ==
    /\ file_cache = _scan_once(tree).file_cache
    /\ path_cache = _scan_once(tree).path_cache

\* C21: on an index as built, a pattern that was looked up gives the stored
\* list when it is a recorded name, else the name-wildcard matches when
\* there are any, else the relative-path matches.
C21_StagesExclusive ==
    IndexAsBuilt =>
        \A p \in Patterns :
            seen[p].called =>
                find_files(file_cache, path_cache, p) =
                    IF KeyIndex(file_cache, p) # 0
                    THEN file_cache[KeyIndex(file_cache, p)].val
                    ELSE IF NameMatches(file_cache, p) # << >>
                    THEN NameMatches(file_cache, p)
                    ELSE PathMatches(path_cache, p, << >>)

\* the full paths of path_cache whose relative path matches, in map order
RECURSIVE PathHits(_, _)
PathHits(pcache, pat) ==
    IF pcache = << >> THEN << >>
    ELSE (IF fnmatch(Head(pcache).key, pat) \/ Contains(Head(pcache).key, pat)
          THEN << Head(pcache).val >> ELSE << >>)
         \o PathHits(Tail(pcache), pat)

\* a sequence without the repetitions of its elements: first occurrences
RECURSIVE FirstSeen(_)
FirstSeen(q) ==
    IF q = << >> THEN << >>
    ELSE LET front == FirstSeen(SubSeq(q, 1, Len(q) - 1))
             last  == q[Len(q)]
         IN  IF \E k \in 1..Len(front) : front[k] = last
             THEN front ELSE Append(front, last)

\* C22: on an index as built, the list a looked-up pattern gives holds no
\* path twice; for a pattern that is no recorded name it is the name matches
\* followed by the path matches, each path where it came first; and it is
\* empty when neither a name nor a relative path matches (as for every
\* pattern when base_dir does not exist).
C22_NoDuplicatesFirstSeen ==
    IndexAsBuilt =>
        \A p \in Patterns :
            seen[p].called =>
                LET r == find_files(file_cache, path_cache, p)
                    names == NameMatches(file_cache, p)
                    paths == PathHits(path_cache, p)
                IN  /\ \A j, k \in 1..Len(r) : j # k => r[j] # r[k]
                    /\ KeyIndex(file_cache, p) = 0 =>
                          r = FirstSeen(names \o paths)
                    /\ (KeyIndex(file_cache, p) = 0 /\ names = << >>
                           /\ paths = << >>) => r = << >>
                    /\ ~node_dir_exists => r = << >>

\* a wildcard was looked up on an index as built, some path matched both by
\* its name and by its relative path, and another path only by the latter
C22_Witness ==
    /\ IndexAsBuilt
    /\ \E p \in Patterns :
          LET r == find_files(file_cache, path_cache, p)
              names == NameMatches(file_cache, p)
              paths == PathHits(path_cache, p)
          IN  /\ seen[p].called
              /\ KeyIndex(file_cache, p) = 0
              /\ \E j \in 1..Len(names), k \in 1..Len(paths) : names[j] = paths[k]
              /\ Len(r) > Len(names)

\* C23: at most one FileCache is made in a run, and only once the checks
\* have begun (the extraction has returned); every lookup is made on that
\* one object; and no check has written under node_dir since it was made.
C23_IndexBuiltOnce ==
    /\ cache_builds <= 1
    /\ served_by \subseteq { 1 }
    /\ served_by # {} => cache_builds = 1
    /\ cache_builds > 0 =>
          /\ invoked # << >>
          /\ pc \notin { "mkbase", "tmpspace", "acquire", "acquiring",
                         "noarchive", "mknode", "copy", "extract",
                         "extracting" }
          /\ cache_tree = tree_writes

\* a second check has looked files up in the index the first one built,
\* after earlier checks had written under node_dir
C23_Witness ==
    /\ pc = "check_run" /\ CheckOrder[cur] = "certificate_check"
    /\ "nxos_discovery_service" \notin deviant
    /\ cache_builds = 1 /\ served_by = { 1 }
    /\ tree_writes = 2

\* C24: a step of a check unit (its body or the handler at its boundary)
\* leaves every entry but the one registered under its own name as it was,
\* and adds no key to the aggregate.
C24_OwnEntryOnly ==
    [][ (pc \in { "check_run", "check_handle" } /\ ~handling) =>
            /\ \A c \in CheckNames :
                  c # CheckOrder[cur] => results'[c] = results[c]
            /\ extraKeys' = extraKeys ]_vars

\* C25: once cleanup_processes has begun, neither document is written any
\* more; the process exits from the last stage of the cleanup, so the
\* cleanup has run through once; and it exits with the code main() was
\* returning when the cleanup began.
C25_CleanupLast ==
    [][ LET InCleanup == pc \in { CleanupStages[i] : i \in 1..Len(CleanupStages) }
        IN  /\ InCleanup =>
                  /\ statusFile' = statusFile
                  /\ resultsFile' = resultsFile
            /\ pc' = "exited" =>
                  /\ pc \in { "exited", CleanupStages[Len(CleanupStages)] }
                  /\ InCleanup => exitCode' = retcode ]_vars

\* C26: a run that receives no SIGINT reaches its exit.
C26_UninterruptedRunExits == <>Exited

\* C27: while the heartbeat document shows a terminal status, the result
\* document is written and holds the aggregate as it is.
C27_ResultsBeforeTerminalHeartbeat ==
    (statusFile.written
        /\ statusFile.status \in { "complete", "error", "interrupted" }) =>
        /\ resultsFile.written
        /\ resultsFile.checks = results
        /\ resultsFile.keys = extraKeys

\* C28: what the poller reads is a whole record (or no file at all, before
\* the first update), never an empty document or a mixture of two records.
C28_PollerReadsWholeRecord == hb_read.kind \notin { "empty", "broken" }

\* C29: a process that is not a child of this run is running after the
\* cleanup as it was before.
C29_OnlyOwnChildrenKilled ==
    \A p \in 1..Len(procs) : procs[p].parent = "other" => procs[p].alive

\* C30: when the copy of the archive does not exist and nothing from
\* outside disturbs check_pods, the check ends by itself, not in the handler
\* at its boundary, and its entry is one the live query gives.
C30_MissingArchiveFallsBack ==
    LET i == CHOOSE k \in 1..NumChecks : CheckOrder[k] = "pod_status"
    IN  (cur > i /\ ~copied /\ interrupts = 0 /\ "pod_status" \notin deviant) =>
            /\ "pod_status" \notin faulted
            /\ results["pod_status"].status \in { "PASS", "FAIL", "WARNING" }
            /\ \E k \in 1..Len(results["pod_status"].details) :
                  results["pod_status"].details[k] \in { "ok", "finding", "inconclusive" }

=============================================================================
